---- MODULE Spec2Model ----
(***************************************************************************)
(* Model of the wallet migration component (WalletMigration.tsx) and the   *)
(* cipher adapter it calls (utils/crypto).                                 *)
(*                                                                         *)
(* JavaScript strings that the code inspects character by character        *)
(* (filenames, wallet addresses) are sequences of one-character strings.   *)
(* Strings the code treats as opaque are TLA+ strings.  A ciphertext       *)
(* string is a record that names what it decrypts to and under which key.  *)
(***************************************************************************)
EXTENDS Integers, Sequences, FiniteSets, TLC

\* ------------------------------------------------------------------------
\* Bounds of the model
\* ------------------------------------------------------------------------

\* file selections (uploads) of one behaviour; as many batches can have
\* their reads in flight at once
MaxUploads == 2

\* ------------------------------------------------------------------------
\* Characters and numbers <-> text
\* ------------------------------------------------------------------------

Digits == <<"0", "1", "2", "3", "4", "5", "6", "7", "8", "9">>
Upper == <<"A", "B", "C", "D", "E", "F", "G", "H", "I", "J", "K", "L", "M",
           "N", "O", "P", "Q", "R", "S", "T", "U", "V", "W", "X", "Y", "Z">>
Lower == <<"a", "b", "c", "d", "e", "f", "g", "h", "i", "j", "k", "l", "m",
           "n", "o", "p", "q", "r", "s", "t", "u", "v", "w", "x", "y", "z">>

\* \d of the regular expression
IsDigit(c) == \E i \in DOMAIN Digits : Digits[i] = c

\* [0-9a-fA-F] of the regular expression
IsHex(c) == IsDigit(c) \/ c \in {"a", "b", "c", "d", "e", "f", "A", "B", "C", "D", "E", "F"}

\* . of the regular expression: any character but a line terminator
IsDot(c) == c \notin {"\n", "\r"}

AllOf(s, P(_)) == \A i \in DOMAIN s : P(s[i])

\* String(n) / `${n}` for a natural number n: its decimal digits
RECURSIVE NumberToString(_)
NumberToString(n) ==
  IF n < 10 THEN <<Digits[n + 1]>>
  ELSE NumberToString(n \div 10) \o <<Digits[(n % 10) + 1]>>

\* parseInt(s) for a string s of decimal digits
RECURSIVE parseInt(_)
parseInt(s) ==
  IF s = <<>> THEN 0
  ELSE 10 * parseInt(SubSeq(s, 1, Len(s) - 1))
       + ((CHOOSE i \in DOMAIN Digits : Digits[i] = s[Len(s)]) - 1)

\* String(n).padStart(2, '0')
padStart2(n) ==
  LET s == NumberToString(n) IN IF Len(s) < 2 THEN <<"0">> \o s ELSE s

\* s.toLowerCase()
toLowerCase(s) ==
  [i \in DOMAIN s |->
     IF \E k \in DOMAIN Upper : Upper[k] = s[i]
     THEN Lower[CHOOSE k \in DOMAIN Upper : Upper[k] = s[i]]
     ELSE s[i]]

\* ------------------------------------------------------------------------
\* Nullable strings (string | null of the useState hooks)
\* ------------------------------------------------------------------------

Null == [isNull |-> TRUE, str |-> <<>>]
Some(s) == [isNull |-> FALSE, str |-> s]

\* !x for a nullable string: null and "" are falsy
Falsy(x) == x.isNull \/ x.str = <<>>

\* ------------------------------------------------------------------------
\* Filename codec
\* ------------------------------------------------------------------------

AccountsSuffix == <<"-", "a", "c", "c", "o", "u", "n", "t", "s", ".", "j", "s", "o", "n">>
DotJson == <<".", "j", "s", "o", "n">>
MigratedToken == <<"m", "i", "g", "r", "a", "t", "e", "d">>

NoMatch == [matched |-> FALSE, timestamp |-> <<>>, accountCount |-> 0,
            network |-> <<>>, walletAddress |-> <<>>]

\* The ways /^(\d{14})-(\d+)-(.+?)-(0x[0-9a-fA-F]+)-accounts\.json$/ can
\* match s: <<i, j>> where the count is s[16..i], the network s[i+2..j] and
\* the address s[j+2..Len(s)-14].
FilenameSplits(s) ==
  LET n == Len(s)
      e == n - Len(AccountsSuffix)
  IN IF \/ e < 16
        \/ SubSeq(s, e + 1, n) # AccountsSuffix
        \/ s[15] # "-"
        \/ ~AllOf(SubSeq(s, 1, 14), IsDigit)
     THEN {}
     ELSE LET countEnds == {i \in 16..e : s[i + 1] = "-" /\ AllOf(SubSeq(s, 16, i), IsDigit)}
          IN UNION { { <<i, j>> : j \in { k \in (i + 2)..(e - 4) :
                                           /\ s[k + 1] = "-"
                                           /\ s[k + 2] = "0"
                                           /\ s[k + 3] = "x"
                                           /\ AllOf(SubSeq(s, k + 4, e), IsHex)
                                           /\ AllOf(SubSeq(s, i + 2, k), IsDot) } }
                     : i \in countEnds }

\* parseFilename: the match the backtracking matcher finds first: the
\* longest count (\d+ is greedy), then the shortest network (.+? is lazy).
parseFilename(filename) ==
  LET ms == FilenameSplits(filename) IN
  IF ms = {} THEN NoMatch
  ELSE LET i == CHOOSE a \in {p[1] : p \in ms} : \A b \in {p[1] : p \in ms} : b <= a
           js == {p[2] : p \in {q \in ms : q[1] = i}}
           j == CHOOSE a \in js : \A b \in js : a <= b
       IN [matched |-> TRUE,
           timestamp |-> SubSeq(filename, 1, 14),
           accountCount |-> parseInt(SubSeq(filename, 16, i)),
           network |-> SubSeq(filename, i + 2, j),
           walletAddress |-> SubSeq(filename, j + 2, Len(filename) - Len(AccountsSuffix))]

\* originalFilename.replace(/\.json$/, '')
StripJson(s) ==
  IF Len(s) >= Len(DotJson) /\ SubSeq(s, Len(s) - Len(DotJson) + 1, Len(s)) = DotJson
  THEN SubSeq(s, 1, Len(s) - Len(DotJson))
  ELSE s

\* The YYYYMMDDHHmmss text of a Date; month is getMonth(), 0-based.
Timestamp(now) ==
  NumberToString(now.year) \o padStart2(now.month + 1) \o padStart2(now.day)
  \o padStart2(now.hours) \o padStart2(now.minutes) \o padStart2(now.seconds)

generateFilename(originalFilename, walletCount, newAddress, now) ==
  LET parsed == parseFilename(originalFilename)
      timestamp == Timestamp(now)
  IN IF parsed.matched /\ ~Falsy(newAddress)
     THEN timestamp \o <<"-">> \o NumberToString(walletCount) \o <<"-">>
          \o parsed.network \o <<"-">> \o toLowerCase(newAddress.str) \o AccountsSuffix
     ELSE LET baseName == StripJson(originalFilename) IN
          timestamp \o <<"-">> \o NumberToString(walletCount) \o <<"-">>
          \o baseName \o <<"-">>
          \o (IF Falsy(newAddress) THEN MigratedToken ELSE toLowerCase(newAddress.str))
          \o AccountsSuffix

\* ------------------------------------------------------------------------
\* Cipher adapter (utils/crypto)
\* ------------------------------------------------------------------------

\* A ciphertext string CryptoJS.AES.encrypt(pt, key) returns: self-describing,
\* it carries the random salt it was made with.
Enc(pt, key, salt) == [kind |-> "aes", pt |-> pt, key |-> key, salt |-> salt]
\* The empty string, and a string that is no AES ciphertext at all.
EmptyString == [kind |-> "empty", pt |-> "", key |-> <<>>, salt |-> ""]
Malformed == [kind |-> "malformed", pt |-> "", key |-> <<>>, salt |-> ""]

\* What decrypting with a wrong key or a malformed input leaves behind when
\* the bytes happen to be valid UTF-8 and not empty.
GarbageText == "garbage"

\* The random salt AES.encrypt draws: a value no stored ciphertext has.  No
\* operation reads a salt, so one fresh value stands for all of them.
Salts == {"fresh"}

\* Crypto.encrypt: AES with a fresh random salt; never fails on strings.
cryptoEncrypt(pk, signature) == {Enc(pk, signature, s) : s \in Salts}

\* Crypto.decrypt: AES.decrypt has no integrity check.  With the matching
\* passphrase it returns the plaintext.  Otherwise the unpadded bytes are
\* arbitrary: bytes.toString(Utf8) throws "Malformed UTF-8 data", or returns
\* the empty string, or returns garbage text.
cryptoDecrypt(encrypted, signature) ==
  IF encrypted.kind = "aes" /\ encrypted.key = signature
  THEN {[threw |-> FALSE, text |-> encrypted.pt]}
  ELSE {[threw |-> TRUE, text |-> ""],
        [threw |-> FALSE, text |-> ""],
        [threw |-> FALSE, text |-> GarbageText]}

\* decrypt of the component: rethrows what crypto.decrypt throws (with its
\* own message), returns what it returns.
decrypt(encryptedData, signature) == cryptoDecrypt(encryptedData, signature)

\* encrypt of the component: the same wrapper around crypto.encrypt.
encrypt(data, signature) ==
  {[threw |-> FALSE, text |-> c] : c \in cryptoEncrypt(data, signature)}

\* ------------------------------------------------------------------------
\* JSON values and JSON text
\* ------------------------------------------------------------------------

\* A parsed file body: data.isArray is Array.isArray(data); data.items are the
\* elements of the array, or the one object itself.  A wallet object is a
\* function from its own property names to their values.
JSArray(items) == [isArray |-> TRUE, items |-> items]
JSObject(obj) == [isArray |-> FALSE, items |-> <<obj>>]

BooleanFields == {"isMain"}

\* The JSON token of one property value: a quoted string, or a bare literal.
TokenOf(k, v) ==
  IF k \in BooleanFields
  THEN [tok |-> "literal", lit |-> IF v THEN "true" ELSE "false"]
  ELSE [tok |-> "string", lit |-> v]

ValueOf(k, t) == IF k \in BooleanFields THEN t.lit = "true" ELSE t.lit

\* JSON.stringify(value, null, 2): the text of an object or of an array of
\* objects (layout is not modelled, the tokens are).
JSONstringify(data) ==
  [wellFormed |-> TRUE,
   root |-> IF data.isArray THEN "[" ELSE "{",
   elems |-> [i \in DOMAIN data.items |->
                [k \in DOMAIN data.items[i] |-> TokenOf(k, data.items[i][k])]]]

\* Text that is not JSON.
BrokenText == [wellFormed |-> FALSE, root |-> "", elems |-> <<>>]

\* JSON.parse(text): throws a SyntaxError on text that is not JSON.
JSONparse(text) ==
  [threw |-> ~text.wellFormed,
   value |-> [isArray |-> text.root = "[",
              items |-> [i \in DOMAIN text.elems |->
                           [k \in DOMAIN text.elems[i] |-> ValueOf(k, text.elems[i][k])]]]]

\* ------------------------------------------------------------------------
\* Migration of one run (the body of handleMigrate)
\* ------------------------------------------------------------------------

Has(wallet, k) == k \in DOMAIN wallet

\* !s for a string property: undefined and "" are falsy
FalsyKey(wallet, k) == ~Has(wallet, k) \/ wallet[k].kind = "empty"

\* wallet.privateKey || wallet.encryptedPrivateKey; EmptyString stands for
\* every falsy result (undefined or ""), which the code does not tell apart.
ResolveKey(wallet) ==
  IF ~FalsyKey(wallet, "privateKey") THEN wallet.privateKey
  ELSE IF Has(wallet, "encryptedPrivateKey") THEN wallet.encryptedPrivateKey
  ELSE EmptyString

\* SpreadWithKey, were the legacy key field removed on writing privateKey.
Spread_DropLegacy(wallet, newEncryptedPk) ==
  [k \in (DOMAIN wallet \ {"encryptedPrivateKey"}) \cup {"privateKey"} |->
     IF k = "privateKey" THEN newEncryptedPk ELSE wallet[k]]

\* { ...wallet, privateKey: newEncryptedPk }
SpreadWithKey(wallet, newEncryptedPk) ==
  [k \in DOMAIN wallet \cup {"privateKey"} |->
     IF k = "privateKey" THEN newEncryptedPk ELSE wallet[k]]

\* A callback of wallets.map that threw after n cipher calls.
Thrown(wallet, n) == [ok |-> FALSE, rec |-> wallet, calls |-> n]

\* MigrateWallet, were the plaintext encrypted under the old signature again.
MigrateWallet_SameKey(wallet, oldSig, newSig) ==
  LET encryptedKey == ResolveKey(wallet) IN
  IF encryptedKey.kind = "empty" THEN {Thrown(wallet, 0)}
  ELSE UNION {
         IF d.threw THEN {Thrown(wallet, 1)}
         ELSE { IF e.threw THEN Thrown(wallet, 2)
                ELSE [ok |-> TRUE, rec |-> SpreadWithKey(wallet, e.text), calls |-> 2]
                : e \in encrypt(d.text, oldSig) }
         : d \in decrypt(encryptedKey, oldSig) }

\* The callback of wallets.map for one wallet: every way it can end.
\* ok = FALSE: it threw.  calls: how many cipher calls it made.
MigrateWallet(wallet, oldSig, newSig) ==
  LET encryptedKey == ResolveKey(wallet) IN
  IF encryptedKey.kind = "empty" THEN {Thrown(wallet, 0)}
  ELSE UNION {
         IF d.threw THEN {Thrown(wallet, 1)}
         ELSE { IF e.threw THEN Thrown(wallet, 2)
                ELSE [ok |-> TRUE, rec |-> SpreadWithKey(wallet, e.text), calls |-> 2]
                : e \in encrypt(d.text, newSig) }
         : d \in decrypt(encryptedKey, oldSig) }

\* MapWallets, were a wallet whose callback throws left out of the result.
RECURSIVE MapWallets_SkipFailed(_, _, _, _)
MapWallets_SkipFailed(wallets, n, oldSig, newSig) ==
  IF n = 0 THEN {[ok |-> TRUE, recs |-> <<>>, calls |-> 0]}
  ELSE UNION {
         { [ok |-> TRUE,
            recs |-> IF r.ok THEN Append(p.recs, r.rec) ELSE p.recs,
            calls |-> p.calls + r.calls]
           : r \in MigrateWallet(wallets[n], oldSig, newSig) }
         : p \in MapWallets_SkipFailed(wallets, n - 1, oldSig, newSig) }

\* wallets.map(...) over the first n wallets, in order: it stops at the first
\* wallet whose callback throws, and the exception leaves the map.
RECURSIVE MapWallets(_, _, _, _)
MapWallets(wallets, n, oldSig, newSig) ==
  IF n = 0 THEN {[ok |-> TRUE, recs |-> <<>>, calls |-> 0]}
  ELSE UNION {
         IF ~p.ok THEN {p}
         ELSE { [ok |-> r.ok,
                 recs |-> IF r.ok THEN Append(p.recs, r.rec) ELSE <<>>,
                 calls |-> p.calls + r.calls]
                : r \in MigrateWallet(wallets[n], oldSig, newSig) }
         : p \in MapWallets(wallets, n - 1, oldSig, newSig) }

\* Rewrap, were the array of migrated wallets always the output.
Rewrap_AlwaysArray(isArray, migratedWallets) == JSArray(migratedWallets)

\* Array.isArray(fileData.data) ? migratedWallets : migratedWallets[0]
Rewrap(isArray, migratedWallets) ==
  IF isArray THEN JSArray(migratedWallets) ELSE JSObject(migratedWallets[1])

\* MigrateFile, were an array file written with the wallets that did migrate.
MigrateFile_Partial(fileData, oldSig, newSig, newAddress, now) ==
  LET wallets == fileData.data.items
      maps == IF fileData.data.isArray
              THEN MapWallets_SkipFailed(wallets, Len(wallets), oldSig, newSig)
              ELSE MapWallets(wallets, Len(wallets), oldSig, newSig)
  IN
  { IF ~m.ok THEN [ok |-> FALSE, calls |-> m.calls, entry |-> <<>>]
    ELSE [ok |-> TRUE, calls |-> m.calls,
          entry |-> << [filename |-> generateFilename(fileData.file.name, Len(m.recs),
                                                      newAddress, now),
                        data |-> JSONstringify(Rewrap(fileData.data.isArray, m.recs))] >>]
    : m \in maps }

\* The callback of walletFilesData.forEach for one file: every way it can end.
MigrateFile(fileData, oldSig, newSig, newAddress, now) ==
  LET wallets == fileData.data.items IN
  { IF ~m.ok THEN [ok |-> FALSE, calls |-> m.calls, entry |-> <<>>]
    ELSE [ok |-> TRUE, calls |-> m.calls,
          entry |-> << [filename |-> generateFilename(fileData.file.name, Len(m.recs),
                                                      newAddress, now),
                        data |-> JSONstringify(Rewrap(fileData.data.isArray, m.recs))] >>]
    : m \in MapWallets(wallets, Len(wallets), oldSig, newSig) }

\* walletFilesData.forEach(...) over the first n files: migratedFilesData as
\* pushed so far, or the exception that left the loop.
RECURSIVE ForEachFile(_, _, _, _, _, _)
ForEachFile(filesData, n, oldSig, newSig, newAddress, now) ==
  IF n = 0 THEN {[ok |-> TRUE, calls |-> 0, migratedFilesData |-> <<>>]}
  ELSE UNION {
         IF ~p.ok THEN {p}
         ELSE { [ok |-> f.ok,
                 calls |-> p.calls + f.calls,
                 migratedFilesData |-> IF f.ok THEN p.migratedFilesData \o f.entry ELSE <<>>]
                : f \in MigrateFile(filesData[n], oldSig, newSig, newAddress, now) }
         : p \in ForEachFile(filesData, n - 1, oldSig, newSig, newAddress, now) }

\* Precondition, were the new signature not looked at.
Precondition_IgnoreNew(oldSig, newSig, filesData) ==
  ~Falsy(oldSig) /\ Len(filesData) > 0

\* The guard of handleMigrate.
Precondition(oldSig, newSig, filesData) ==
  ~Falsy(oldSig) /\ ~Falsy(newSig) /\ Len(filesData) > 0

\* ------------------------------------------------------------------------
\* Inputs the environment can supply
\* ------------------------------------------------------------------------

\* What the signing collaborator hands to onSignatureObtained: the signature
\* of a wallet (a hex string) and its address.
SigW1 == <<"0", "x", "5", "1">>
SigW2 == <<"0", "x", "7", "e">>
AddrW1 == <<"0", "x", "A", "b", "1">>
AddrW2 == <<"0", "x", "c", "D", "2">>
SignerOutputs ==
  { [signature |-> SigW1, address |-> AddrW1],
    [signature |-> SigW2, address |-> AddrW2] }

\* What new Date() can read: one date whose parts all need padding, one
\* whose parts need none (month is 0-based).
Clock ==
  { [year |-> 2024, month |-> 0, day |-> 5, hours |-> 9, minutes |-> 3, seconds |-> 7],
    [year |-> 2025, month |-> 10, day |-> 16, hours |-> 12, minutes |-> 30, seconds |-> 45] }

\* Stored key strings: two private keys encrypted under wallet 1's signature.
CtA == Enc("pkA", SigW1, "stored")
CtB == Enc("pkB", SigW1, "stored")

RecPrivate == [address |-> "0x1", privateKey |-> CtA, encryptedPrivateKey |-> CtB,
               isMain |-> TRUE, network |-> "eth"]
RecLegacy == [address |-> "0x2", encryptedPrivateKey |-> CtB]
RecBoth == [address |-> "0x3", privateKey |-> EmptyString, encryptedPrivateKey |-> CtB,
            memo |-> "opaque"]
RecNoKey == [address |-> "0x4", isMain |-> FALSE]
RecMalformed == [address |-> "0x5", privateKey |-> Malformed]

NameConvention == <<"2", "0", "2", "4", "0", "1", "0", "1", "0", "0", "0", "0", "0", "0", "-", "2", "-", "e", "t", "h", "-", "m", "a", "i", "n", "-", "0", "x", "A", "b", "-", "a", "c", "c", "o", "u", "n", "t", "s", ".", "j", "s", "o", "n">>
NameWeird == <<"w", "e", "i", "r", "d", "-", "n", "a", "m", "e", ".", "j", "s", "o", "n">>
NameOnlySuffix == <<".", "j", "s", "o", "n">>
NameHexToken == <<"a", "-", "0", "x", "1", "f", "-", "b", ".", "j", "s", "o", "n">>
NameBad == <<"b", "a", "d", ".", "j", "s", "o", "n">>
NameBroken == <<"b", "r", "o", "k", "e", "n", ".", "j", "s", "o", "n">>
NameLocked == <<"l", "o", "c", "k", "e", "d", ".", "j", "s", "o", "n">>
NameJunk == <<"j", "u", "n", "k", ".", "j", "s", "o", "n">>

JsonFile(name, data) == [name |-> name, readable |-> TRUE, text |-> JSONstringify(data)]

FileTwo == JsonFile(NameConvention, JSArray(<<RecPrivate, RecLegacy>>))
FileSingle == JsonFile(NameWeird, JSObject(RecPrivate))
FileOne == JsonFile(NameOnlySuffix, JSArray(<<RecBoth>>))
FileEmpty == JsonFile(NameHexToken, JSArray(<<>>))
FileMissingKey == JsonFile(NameBad, JSArray(<<RecLegacy, RecNoKey>>))
FileMalformedKey == JsonFile(NameJunk, JSObject(RecMalformed))
FileBroken == [name |-> NameBroken, readable |-> TRUE, text |-> BrokenText]
FileLocked == [name |-> NameLocked, readable |-> FALSE, text |-> BrokenText]

\* The selections of the file input (event.target.files) the model draws from.
UploadBatches ==
  { <<FileTwo, FileEmpty>>,
    <<FileSingle, FileOne>>,
    <<FileSingle, FileMissingKey>>,
    <<FileMalformedKey>>,
    <<FileBroken, FileSingle, FileLocked>> }

\* ------------------------------------------------------------------------
\* State
\* ------------------------------------------------------------------------

VARIABLES
  oldWalletAddress,     \* useState<string | null>
  oldWalletSignature,   \* useState<string | null>
  newWalletAddress,     \* useState<string | null>
  newWalletSignature,   \* useState<string | null>
  walletFiles,          \* useState<File[]>
  walletFilesData,      \* useState<Array<{file, data}>>
  isMigrating,          \* useState(false)
  migratedFiles,        \* useState<Array<{filename, data}>>
  pendingReads,         \* upload batches whose Promise.all has not settled
  uploads,              \* file selections so far
  lastSelected,         \* the files of the most recent non-empty selection
  lastEvent,            \* the last alert shown, its handler, the cipher calls it made
  migratedFrom          \* the walletFilesData the run that set migratedFiles read

vars == <<oldWalletAddress, oldWalletSignature, newWalletAddress, newWalletSignature,
          walletFiles, walletFilesData, isMigrating, migratedFiles, pendingReads,
          uploads, lastSelected, lastEvent, migratedFrom>>

signatureVars == <<oldWalletAddress, oldWalletSignature, newWalletAddress, newWalletSignature>>
loadedVars == <<walletFiles, walletFilesData>>
migrationVars == <<isMigrating, migratedFiles, migratedFrom>>

Event(handler, alert, calls) == [handler |-> handler, alert |-> alert, calls |-> calls]

Init ==
  /\ oldWalletAddress = Null
  /\ oldWalletSignature = Null
  /\ newWalletAddress = Null
  /\ newWalletSignature = Null
  /\ walletFiles = <<>>
  /\ walletFilesData = <<>>
  /\ isMigrating = FALSE
  /\ migratedFiles = <<>>
  /\ pendingReads = <<>>
  /\ uploads = 0
  /\ lastSelected = <<>>
  /\ lastEvent = Event("none", "none", 0)
  /\ migratedFrom = <<>>

\* ------------------------------------------------------------------------
\* Signing
\* ------------------------------------------------------------------------

\* isComplete of WalletConnectionSection: a completed section renders no
\* Sign button, so its callback cannot run again.
isComplete(storedSignature, storedAddress) == ~Falsy(storedSignature) /\ ~Falsy(storedAddress)

handleOldWalletSignature ==
  /\ ~isComplete(oldWalletSignature, oldWalletAddress)
  /\ \E w \in SignerOutputs :
       /\ oldWalletSignature' = Some(w.signature)
       /\ oldWalletAddress' = Some(w.address)
  /\ UNCHANGED <<newWalletAddress, newWalletSignature, loadedVars, migrationVars,
                 pendingReads, uploads, lastSelected, lastEvent>>

handleNewWalletSignature ==
  /\ ~isComplete(newWalletSignature, newWalletAddress)
  /\ \E w \in SignerOutputs :
       /\ newWalletSignature' = Some(w.signature)
       /\ newWalletAddress' = Some(w.address)
  /\ UNCHANGED <<oldWalletAddress, oldWalletSignature, loadedVars, migrationVars,
                 pendingReads, uploads, lastSelected, lastEvent>>

\* ------------------------------------------------------------------------
\* Upload
\* ------------------------------------------------------------------------

Unsettled == [settled |-> FALSE, file |-> <<>>, data |-> JSArray(<<>>)]
Resolved(file, data) == [settled |-> TRUE, file |-> file, data |-> data]

RemoveAt(seq, b) == SubSeq(seq, 1, b - 1) \o SubSeq(seq, b + 1, Len(seq))

\* handleFileUpload up to reader.readAsText: one promise per file, all pending.
handleFileUpload ==
  \E files \in UploadBatches \cup {<<>>} :
    /\ IF Len(files) = 0
       THEN UNCHANGED <<pendingReads, uploads, lastSelected>>
       ELSE /\ uploads < MaxUploads
            /\ pendingReads' = Append(pendingReads,
                                      [files |-> files,
                                       results |-> [i \in DOMAIN files |-> Unsettled]])
            /\ uploads' = uploads + 1
            /\ lastSelected' = files
    /\ UNCHANGED <<signatureVars, loadedVars, migrationVars, lastEvent>>

\* Promise.all(...).catch: the first rejected read settles the batch; what
\* its other reads do later changes nothing.
PromiseAllRejected(b) ==
  /\ pendingReads' = RemoveAt(pendingReads, b)
  /\ lastEvent' = Event("reader", "Error loading files", 0)
  /\ UNCHANGED <<signatureVars, loadedVars, migrationVars, uploads, lastSelected>>

\* One read resolved: Promise.all(...).then runs once every read has.
PromiseResolved(b, i, result) ==
  LET batch == pendingReads[b]
      results == [batch.results EXCEPT ![i] = result]
  IN IF \A k \in DOMAIN results : results[k].settled
     THEN /\ walletFiles' = batch.files
          /\ walletFilesData' = [k \in DOMAIN results |->
                                   [file |-> results[k].file, data |-> results[k].data]]
          /\ pendingReads' = RemoveAt(pendingReads, b)
          /\ lastEvent' = Event("reader", "Loaded files", 0)
          /\ UNCHANGED <<signatureVars, migrationVars, uploads, lastSelected>>
     ELSE /\ pendingReads' = [pendingReads EXCEPT ![b].results = results]
          /\ UNCHANGED <<signatureVars, loadedVars, migrationVars, uploads, lastSelected, lastEvent>>

\* reader.onload of file i of batch b
readerOnLoad ==
  \E b \in DOMAIN pendingReads :
    \E i \in DOMAIN pendingReads[b].files :
      LET file == pendingReads[b].files[i]
          json == JSONparse(file.text)
      IN /\ ~pendingReads[b].results[i].settled
         /\ file.readable
         /\ IF json.threw
            THEN PromiseAllRejected(b)
            ELSE PromiseResolved(b, i, Resolved(file, json.value))

\* reader.onerror of file i of batch b
readerOnError ==
  \E b \in DOMAIN pendingReads :
    \E i \in DOMAIN pendingReads[b].files :
      /\ ~pendingReads[b].results[i].settled
      /\ ~pendingReads[b].files[i].readable
      /\ PromiseAllRejected(b)

\* ------------------------------------------------------------------------
\* Migration and export
\* ------------------------------------------------------------------------

handleMigrate ==
  IF ~Precondition(oldWalletSignature, newWalletSignature, walletFilesData)
  THEN /\ lastEvent' = Event("handleMigrate", "Please ensure both wallets are signed", 0)
       /\ UNCHANGED <<signatureVars, loadedVars, migrationVars, pendingReads, uploads, lastSelected>>
  ELSE \E now \in Clock :
         \E run \in ForEachFile(walletFilesData, Len(walletFilesData),
                                oldWalletSignature.str, newWalletSignature.str,
                                newWalletAddress, now) :
           /\ isMigrating' = FALSE
           /\ IF run.ok
              THEN /\ migratedFiles' = run.migratedFilesData
                   /\ migratedFrom' = walletFilesData
                   /\ lastEvent' = Event("handleMigrate", "Successfully migrated", run.calls)
              ELSE /\ lastEvent' = Event("handleMigrate", "Migration failed", run.calls)
                   /\ UNCHANGED <<migratedFiles, migratedFrom>>
           /\ UNCHANGED <<signatureVars, loadedVars, pendingReads, uploads, lastSelected>>

handleExport ==
  IF Len(migratedFiles) = 0
  THEN /\ lastEvent' = Event("handleExport", "No migrated data to export", 0)
       /\ UNCHANGED <<signatureVars, loadedVars, migrationVars, pendingReads, uploads, lastSelected>>
  ELSE /\ lastEvent' = Event("handleExport", "Exported", 0)
       /\ UNCHANGED <<signatureVars, loadedVars, migrationVars, pendingReads, uploads, lastSelected>>

Next ==
  \/ handleOldWalletSignature
  \/ handleNewWalletSignature
  \/ handleFileUpload
  \/ readerOnLoad
  \/ readerOnError
  \/ handleMigrate
  \/ handleExport

Spec == Init /\ [][Next]_vars

\* ------------------------------------------------------------------------
\* Properties
\* ------------------------------------------------------------------------

\* The records of the k-th exportable file, read back from its JSON text, and
\* the records of the file it was migrated from.
OutputBody(k) == JSONparse(migratedFiles[k].data).value
InputBody(k) == migratedFrom[k].data
Entries == DOMAIN migratedFiles

\* The key string of an input record: privateKey if it has a non-empty one,
\* otherwise encryptedPrivateKey.
KeyOf(rec) ==
  IF "privateKey" \in DOMAIN rec /\ rec.privateKey.kind # "empty" THEN rec.privateKey
  ELSE IF "encryptedPrivateKey" \in DOMAIN rec THEN rec.encryptedPrivateKey
  ELSE EmptyString

MigrateSucceeded == lastEvent = Event("handleMigrate", "Successfully migrated", lastEvent.calls)
MigrateFailed == lastEvent = Event("handleMigrate", "Migration failed", lastEvent.calls)

\* C1: every record of every output file carries, as privateKey, an
\* encryption under the new passphrase of a plaintext that decrypting the
\* input record's key (privateKey if non-empty, else encryptedPrivateKey)
\* under the old passphrase yields; decrypting it under the new passphrase
\* gives exactly that plaintext; no record is dropped.
C1_ReEncrypted ==
  \A k \in Entries :
    /\ Len(OutputBody(k).items) = Len(InputBody(k).items)
    /\ \A i \in DOMAIN OutputBody(k).items :
         LET out == OutputBody(k).items[i]
             in == InputBody(k).items[i]
         IN /\ "privateKey" \in DOMAIN out
            /\ out.privateKey.kind = "aes"
            /\ out.privateKey.key = newWalletSignature.str
            /\ \E d \in cryptoDecrypt(KeyOf(in), oldWalletSignature.str) :
                 ~d.threw /\ d.text = out.privateKey.pt
            /\ cryptoDecrypt(out.privateKey, newWalletSignature.str)
                 = {[threw |-> FALSE, text |-> out.privateKey.pt]}

\* C1 witness: a record that only had encryptedPrivateKey was migrated from
\* one wallet's passphrase to another's and now has a privateKey.
C1_Witness ==
  /\ MigrateSucceeded
  /\ oldWalletSignature # newWalletSignature
  /\ \E k \in Entries : \E i \in DOMAIN OutputBody(k).items :
       /\ "privateKey" \notin DOMAIN InputBody(k).items[i]
       /\ OutputBody(k).items[i].privateKey.pt = "pkB"
       /\ Len(OutputBody(k).items) = 2

\* Every record of the body has a key that the old passphrase decrypts.
WellFormed(data) ==
  \A i \in DOMAIN data.items :
    KeyOf(data.items[i]).kind = "aes" /\ KeyOf(data.items[i]).key = oldWalletSignature.str

\* C2 (as claimed): after a run in which one file failed, every well-formed
\* file of the run has been migrated and is in the exportable set.
C2_FailureAbortsOnlyItsFile ==
  MigrateFailed =>
    \A f \in DOMAIN walletFilesData :
      WellFormed(walletFilesData[f].data) =>
        \E k \in Entries : migratedFrom[k] = walletFilesData[f]

\* Every exportable entry holds all records of its input file, each one
\* migrated, and no input file among them has a record without a key.
C3_Complete ==
  /\ Len(migratedFiles) = Len(migratedFrom)
  /\ \A k \in Entries :
       /\ Len(OutputBody(k).items) = Len(InputBody(k).items)
       /\ \A i \in DOMAIN InputBody(k).items : KeyOf(InputBody(k).items[i]).kind # "empty"
       /\ \A i \in DOMAIN OutputBody(k).items :
            /\ OutputBody(k).items[i].privateKey.kind = "aes"
            /\ OutputBody(k).items[i].privateKey.key = newWalletSignature.str

\* C3: no partial file output.  In every reachable state the exportable set
\* holds one entry per file of the run that produced it, each with all
\* records of its input file, each record migrated; and a run that fails on
\* a record puts nothing into the exportable set.
C3_NoPartialFile ==
  /\ []C3_Complete
  /\ [][lastEvent'.alert = "Migration failed" => UNCHANGED migratedFiles]_vars

\* C3 witness: a run has migrated a whole file and the first record of the
\* next file, met a record without any key, failed and left no entry at all.
C3_Witness ==
  /\ MigrateFailed
  /\ lastEvent.calls = 4
  /\ \E f \in DOMAIN walletFilesData :
       \E i \in DOMAIN walletFilesData[f].data.items :
         KeyOf(walletFilesData[f].data.items[i]).kind = "empty"
  /\ migratedFiles = <<>>

\* C4: a handleMigrate step taken while a passphrase is absent or empty or no
\* file is loaded makes no cipher call and leaves migratedFiles, isMigrating,
\* the loaded files and both passphrases as they were.
C4_PreconditionNoWork ==
  [][ ( /\ \/ Falsy(oldWalletSignature)
           \/ Falsy(newWalletSignature)
           \/ Len(walletFilesData) = 0
        /\ handleMigrate )
      => /\ lastEvent'.calls = 0
         /\ UNCHANGED <<migratedFiles, isMigrating, walletFiles, walletFilesData,
                        oldWalletSignature, newWalletSignature>> ]_vars

\* C4 witness: handleMigrate has refused to run with files loaded and the
\* old passphrase present, the new passphrase being absent.
C4_Witness ==
  /\ lastEvent.handler = "handleMigrate"
  /\ lastEvent.alert = "Please ensure both wallets are signed"
  /\ ~Falsy(oldWalletSignature)
  /\ Falsy(newWalletSignature)
  /\ Len(walletFilesData) > 0

\* C5: every output record has exactly the fields of its input record plus
\* privateKey, every field but privateKey with the input's value; the loaded
\* records are still what was parsed from their files.
C5_FieldsPreserved ==
  /\ \A k \in Entries : \A i \in DOMAIN OutputBody(k).items :
       LET out == OutputBody(k).items[i]
           in == InputBody(k).items[i]
       IN /\ DOMAIN out = DOMAIN in \cup {"privateKey"}
          /\ \A f \in DOMAIN in \ {"privateKey"} : out[f] = in[f]
  /\ \A f \in DOMAIN walletFilesData :
       walletFilesData[f].data = JSONparse(walletFilesData[f].file.text).value
  /\ MigrateSucceeded => walletFilesData = migratedFrom

\* C5 witness: a record with an empty privateKey, an encryptedPrivateKey and
\* an opaque field has been migrated.
C5_Witness ==
  /\ MigrateSucceeded
  /\ \E k \in Entries : \E i \in DOMAIN OutputBody(k).items :
       /\ "memo" \in DOMAIN InputBody(k).items[i]
       /\ InputBody(k).items[i].privateKey.kind = "empty"
       /\ OutputBody(k).items[i].encryptedPrivateKey = CtB

\* C6: every output body is a single object if its input was one and an
\* array of as many records, in the input order, if its input was an array;
\* the count in the generated filename is the number of migrated records.
C6_ShapePreserved ==
  \A k \in Entries :
    LET out == OutputBody(k)
        in == InputBody(k)
        count == NumberToString(Len(out.items))
        name == migratedFiles[k].filename
    IN /\ migratedFiles[k].data.root = (IF in.isArray THEN "[" ELSE "{")
       /\ out.isArray = in.isArray
       /\ Len(out.items) = Len(in.items)
       /\ ~in.isArray => Len(out.items) = 1
       /\ \A i \in DOMAIN out.items : out.items[i].address = in.items[i].address
       /\ SubSeq(name, 15, 16 + Len(count)) = <<"-">> \o count \o <<"-">>

\* C6 witness: one run has produced a single-object file and an array of one.
C6_Witness ==
  /\ MigrateSucceeded
  /\ \E k \in Entries : ~OutputBody(k).isArray /\ ~InputBody(k).isArray
  /\ \E k \in Entries : OutputBody(k).isArray /\ Len(OutputBody(k).items) = 1

\* C7 (as claimed): when the reads of a batch end, every file of the batch
\* that is readable, valid JSON is in the loaded set.
C7_InvalidFileDoesNotBlock ==
  [][ \A b \in DOMAIN pendingReads :
        (lastEvent'.handler = "reader" /\ pendingReads' = RemoveAt(pendingReads, b))
        => \A i \in DOMAIN pendingReads[b].files :
             LET f == pendingReads[b].files[i] IN
             (f.readable /\ ~JSONparse(f.text).threw)
             => \E k \in DOMAIN walletFilesData' :
                  /\ walletFilesData'[k].file = f
                  /\ walletFilesData'[k].data = JSONparse(f.text).value ]_vars

\* C8 (as claimed): no output record is the encryption of what a decryption
\* under a passphrase that does not match the stored ciphertext, or of a
\* malformed ciphertext, left behind.
C8_DecryptFailureAborts ==
  \A k \in Entries : \A i \in DOMAIN InputBody(k).items :
    /\ KeyOf(InputBody(k).items[i]).kind = "aes"
    /\ KeyOf(InputBody(k).items[i]).key = oldWalletSignature.str

\* C9 (as claimed): every generated filename parses, and the parse recovers
\* the record count and the lower-cased new address.
C9_FilenameRoundTrip ==
  \A k \in Entries :
    LET parsed == parseFilename(migratedFiles[k].filename) IN
    /\ parsed.matched
    /\ parsed.accountCount = Len(OutputBody(k).items)
    /\ parsed.walletAddress = toLowerCase(newWalletAddress.str)

\* C10 (as claimed): what handleExport hands out was produced by a run over
\* the files that are loaded now, never by an earlier run from other inputs.
C10_ExportIsCurrent ==
  (lastEvent.handler = "handleExport" /\ lastEvent.alert = "Exported")
  => migratedFrom = walletFilesData

\* Every read of the batch can resolve: the file is readable and its text is
\* JSON.
AllLoadable(files) ==
  \A k \in DOMAIN files : files[k].readable /\ ~JSONparse(files[k].text).threw

\* The loaded set is one whole selection, with the parse of each of its
\* files at the same index: never a partial batch, never a mixture.
LoadedIsOneBatch ==
  /\ walletFiles \in UploadBatches \cup {<<>>}
  /\ AllLoadable(walletFiles)
  /\ Len(walletFilesData) = Len(walletFiles)
  /\ \A k \in DOMAIN walletFilesData :
       /\ walletFilesData[k].file = walletFiles[k]
       /\ walletFilesData[k].data = JSONparse(walletFiles[k].text).value

\* C11 (as claimed): file loading is a join over the reads of one batch, so
\* the loaded set is always one whole batch; and once no read is
\* outstanding, the loaded set is the most recently selected batch (when
\* all its files could be read), whatever the order of the read callbacks.
C11_LatestBatchLoaded ==
  /\ LoadedIsOneBatch
  /\ (pendingReads = <<>> /\ AllLoadable(lastSelected)) => walletFiles = lastSelected

====
